---- MODULE Spec2Model ----
(***************************************************************************)
(* PackedIntegers<T>: a growable array of NUM_BITS-wide unsigned integers  *)
(* packed edge to edge into a Vec<u32> buffer (src/src/lib.rs).            *)
(*                                                                         *)
(* A u32 is modelled as the set of its set bit positions (a subset of      *)
(* 0..31), so that shifts drop the bits that leave the 32-bit word exactly *)
(* as the machine does and 2^31 and above need no integer of that size.   *)
(* Bit b of the word is position b; bit 0 is the least significant.        *)
(***************************************************************************)
EXTENDS Integers, Sequences, FiniteSets, TLC

\* ---- bounds of the model ----
MaxLen == 3          \* largest length the array `self` is driven to
MaxShift == 4        \* largest length `self` is grown to in SpecShift
MaxOther == 2        \* largest length the array `other` is driven to
MaxOrd == 2          \* largest length of the three arrays compared in SpecOrd

\* The widths (type parameters U8, U20, U31) the model is run for.
\* U8 never spans; U20 spans at index 1 and 3 with element 2 sharing the
\* high cell of element 1; U31 spans at every index > 0.
Widths == {8, 20, 31}

VARIABLES
    T,        \* the type parameter: the bit width of this instantiation
    self,     \* the PackedIntegers the operations are called on
    other,    \* a second PackedIntegers of the same type (append's argument)
    third,    \* a third PackedIntegers of the same type (ordering only)
    last,     \* the last call made: its name, arguments, return value, panic
    iterator, \* the iterator over `self` that is alive, if any
    most      \* the largest length `self` has had, where it is tracked

vars == <<T, self, other, third, last, iterator, most>>

\* ---- the PackedInt trait (NUM_BITS and MAX of the chosen width) ----
U32_NUM_BITS == 32
NUM_BITS == T
U32Bits == 0..(U32_NUM_BITS - 1)
MAX == {b \in U32Bits : b < NUM_BITS}

\* ---- u32 arithmetic on bit sets ----
Shl(x, k) == {b + k : b \in x} \cap U32Bits
Shr(x, k) == {b - k : b \in {c \in x : c >= k}}
Not(x) == U32Bits \ x
BitAnd(x, y) == x \cap y
BitOr(x, y) == x \cup y
BitXor(x, y) == (x \ y) \cup (y \ x)
\* unsigned x > y: the highest bit in which they differ is set in x
Gt(x, y) == \E b \in x \ y : \A c \in y \ x : c < b
u32_cmp(x, y) == IF x = y THEN "Equal" ELSE IF Gt(x, y) THEN "Greater" ELSE "Less"

Max2(a, b) == IF a >= b THEN a ELSE b

\* ---- Option<u32> ----
None == <<>>
Some(x) == <<x>>

\* ---- Vec<u32>: the buffer and its capacity ----
\* A PackedIntegers is [buf: Seq(u32), bufcap: Nat, len: Nat], bufcap being
\* buf.capacity().  Rust indexes buf from 0, the sequence from 1.
grow_amortized(cap, buflen, additional) ==
    Max2(4, Max2(2 * cap, buflen + additional))
VecPush(v) ==
    [v EXCEPT !.buf = Append(@, {}),
              !.bufcap = IF Len(v.buf) = v.bufcap
                         THEN grow_amortized(v.bufcap, Len(v.buf), 1) ELSE @]
VecReserve(v, additional) ==
    IF v.bufcap - Len(v.buf) >= additional THEN v
    ELSE [v EXCEPT !.bufcap = grow_amortized(v.bufcap, Len(v.buf), additional)]

\* ---- index arithmetic ----
available_bits(sb) == U32_NUM_BITS - sb
buf_index(index) == (index * NUM_BITS) \div U32_NUM_BITS
start_bit(index) == (index * NUM_BITS) % U32_NUM_BITS
to_buf_capacity(cap) == (NUM_BITS * cap + (U32_NUM_BITS - 1)) \div U32_NUM_BITS

\* ---- results of a call: the array afterwards, the return value, the panic ----
Ok(v, r) == [vec |-> v, ret |-> r, err |-> "none"]
Panic(v, e) == [vec |-> v, ret |-> None, err |-> e]

\* ---- constructors ----
new == [buf |-> <<>>, bufcap |-> 0, len |-> 0]
with_capacity(cap) == [buf |-> <<>>, bufcap |-> to_buf_capacity(cap), len |-> 0]

\* (variant) the two widths swapped in the conversion
capacity_swapped(v) == (v.bufcap * NUM_BITS) \div U32_NUM_BITS
capacity(v) == (v.bufcap * U32_NUM_BITS) \div NUM_BITS
is_empty(v) == v.len = 0

\* ---- the cell-spanning codec ----
get_unchecked(v, index) ==
    LET bi == buf_index(index)
        sb == start_bit(index)
        ab == available_bits(sb)
    IN  IF ab >= NUM_BITS
        THEN BitAnd(Shr(v.buf[bi + 1], sb), MAX)
        ELSE LET lo == Shr(v.buf[bi + 1], sb)
                 hi == Shl(v.buf[bi + 2], U32_NUM_BITS - sb)
             IN  BitXor(lo, BitAnd(BitXor(lo, hi), Shl(Shr(MAX, ab), ab)))

get(v, index) == IF index >= v.len THEN None ELSE Some(get_unchecked(v, index))

\* (variant) the field is not cleared before the value is or-ed in
LowCell_no_clear(c, sb, value) == BitOr(c, Shl(value, sb))
\* the cell `c` with the field at sb cleared and value shifted into place
LowCell(c, sb, value) == BitOr(BitAnd(c, Not(Shl(MAX, sb))), Shl(value, sb))
\* the high cell of a spanning write: assigned whole, not merged
HighCell(sb, ab, value) ==
    BitOr(Not(Shr(MAX, U32_NUM_BITS - sb)), Shr(value, ab))

\* (variant) the range check is missing; the value is cut to the field
set_unchecked_no_check(v, index, value) ==
    LET bi == buf_index(index)
        sb == start_bit(index)
        ab == available_bits(sb)
        val == BitAnd(value, MAX)
    IN  IF ab >= NUM_BITS
        THEN Ok([v EXCEPT !.buf[bi + 1] = LowCell(@, sb, val)], None)
        ELSE Ok([v EXCEPT !.buf[bi + 1] = LowCell(@, sb, val),
                          !.buf[bi + 2] = HighCell(sb, ab, val)], None)

set_unchecked(v, index, value) ==
    IF Gt(value, MAX) THEN Panic(v, "ValueOutOfRange")
    ELSE LET bi == buf_index(index)
             sb == start_bit(index)
             ab == available_bits(sb)
         IN  IF ab >= NUM_BITS
             THEN Ok([v EXCEPT !.buf[bi + 1] = LowCell(@, sb, value)], None)
             ELSE Ok([v EXCEPT !.buf[bi + 1] = LowCell(@, sb, value),
                               !.buf[bi + 2] = HighCell(sb, ab, value)], None)

set(v, index, value) ==
    IF index >= v.len THEN Panic(v, "OutOfBounds")
    ELSE set_unchecked(v, index, value)

push(v, value) ==
    IF Gt(value, MAX) THEN Panic(v, "ValueOutOfRange")
    ELSE LET bi == buf_index(v.len)
             sb == start_bit(v.len)
             ab == available_bits(sb)
         IN  IF ab >= NUM_BITS
             THEN LET g == IF bi = Len(v.buf) THEN VecPush(v) ELSE v
                  IN  Ok([g EXCEPT !.buf[bi + 1] = LowCell(@, sb, value),
                                   !.len = @ + 1], None)
             ELSE LET g == VecPush(v)
                  IN  Ok([g EXCEPT !.buf[bi + 1] = LowCell(@, sb, value),
                                   !.buf[bi + 2] = HighCell(sb, ab, value),
                                   !.len = @ + 1], None)

\* (variant) the length is not decremented
pop_no_decrement(v) ==
    IF v.len = 0 THEN Ok(v, None)
    ELSE Ok(v, Some(get_unchecked(v, v.len - 1)))

pop(v) ==
    IF v.len = 0 THEN Ok(v, None)
    ELSE LET w == [v EXCEPT !.len = @ - 1]
         IN  Ok(w, Some(get_unchecked(w, w.len)))

\* (variant) the cells past the kept elements are given up
truncate_shrinking(v, len) ==
    IF len > v.len THEN v
    ELSE [v EXCEPT !.len = len, !.buf = SubSeq(@, 1, to_buf_capacity(len))]
truncate(v, len) == IF len > v.len THEN v ELSE [v EXCEPT !.len = len]
clear(v) == truncate(v, 0)

\* (variant) the length is left out of the test for enough room
reserve_ignoring_len(v, additional) ==
    IF capacity(v) >= additional THEN v
    ELSE VecReserve(v, to_buf_capacity(additional))
reserve(v, additional) ==
    IF capacity(v) >= v.len + additional THEN v
    ELSE VecReserve(v, to_buf_capacity(additional))

\* for i in ((index + 1)..len).rev() { set_unchecked(i, get_unchecked(i - 1)) }
RECURSIVE ShiftRight(_, _, _)
ShiftRight(v, i, index) ==
    IF i < index + 1 THEN Ok(v, None)
    ELSE LET s == set_unchecked(v, i, get_unchecked(v, i - 1))
         IN  IF s.err # "none" THEN s ELSE ShiftRight(s.vec, i - 1, index)

\* (variant) the index is checked after the value has been pushed
insert_late_check(v, index, value) ==
    LET p == push(v, value)
    IN  IF p.err # "none" THEN p
        ELSE IF index > v.len THEN Panic(p.vec, "OutOfBounds")
        ELSE LET s == ShiftRight(p.vec, p.vec.len - 1, index)
             IN  IF s.err # "none" THEN s
                 ELSE set_unchecked(s.vec, index, value)

insert(v, index, value) ==
    IF index > v.len THEN Panic(v, "OutOfBounds")
    ELSE LET p == push(v, value)
         IN  IF p.err # "none" THEN p
             ELSE LET s == ShiftRight(p.vec, p.vec.len - 1, index)
                  IN  IF s.err # "none" THEN s
                      ELSE set_unchecked(s.vec, index, value)

\* for i in (index + 1)..len { set_unchecked(i - 1, get_unchecked(i)) }
RECURSIVE ShiftLeft(_, _)
ShiftLeft(v, i) ==
    IF i >= v.len THEN Ok(v, None)
    ELSE LET s == set_unchecked(v, i - 1, get_unchecked(v, i))
         IN  IF s.err # "none" THEN s ELSE ShiftLeft(s.vec, i + 1)

remove(v, index) ==
    IF index >= v.len THEN Panic(v, "OutOfBounds")
    ELSE LET result == get_unchecked(v, index)
             s == ShiftLeft(v, index + 1)
         IN  IF s.err # "none" THEN s
             ELSE Ok([s.vec EXCEPT !.len = @ - 1], Some(result))

\* ---- iterators: a vector (borrowed or owned) and a cursor ----
into_iter(v) == [vec |-> v, index |-> 0]
iter(v) == into_iter(v)
next_off_by_one(it) == [ret |-> get(it.vec, it.index + 1),
                        iter |-> [it EXCEPT !.index = @ + 1]]
next(it) == [ret |-> get(it.vec, it.index),
             iter |-> [it EXCEPT !.index = @ + 1]]

\* the consuming iterator: it owns the vector it was made from
into_iter_move(v) == [vec |-> v, index |-> 0]
next_move(i) == [ret |-> get(i.vec, i.index),
                 iter |-> [i EXCEPT !.index = @ + 1]]

\* for i in other.iter() { self.push(i) }
RECURSIVE AppendLoop(_, _)
AppendLoop(v, it) ==
    LET n == next(it)
    IN  IF n.ret = None THEN Ok(v, None)
        ELSE LET p == push(v, n.ret[1])
             IN  IF p.err # "none" THEN p ELSE AppendLoop(p.vec, n.iter)

\* (variant) other is not cleared
append_no_clear(v, o) ==
    LET l == AppendLoop(reserve(v, o.len), iter(o))
    IN  [l EXCEPT !.ret = o]

\* self.append(&mut other): the result carries both arrays
append(v, o) ==
    LET l == AppendLoop(reserve(v, o.len), iter(o))
    IN  IF l.err # "none" THEN [l EXCEPT !.ret = o]
        ELSE [vec |-> l.vec, ret |-> clear(o), err |-> "none"]

\* ---- Ord / PartialEq ----
RECURSIVE CmpLoop(_, _)
CmpLoop(s_iter, o_iter) ==
    LET s == next(s_iter)
    IN  IF s.ret = None
        THEN (IF next(o_iter).ret # None THEN "Less" ELSE "Equal")
        ELSE LET o == next(o_iter)
             IN  IF o.ret = None THEN "Greater"
                 ELSE LET c == u32_cmp(s.ret[1], o.ret[1])
                      IN  IF c = "Equal" THEN CmpLoop(s.iter, o.iter) ELSE c

\* (variant) other's remaining elements are not looked at after the loop
RECURSIVE CmpLoopNoTail(_, _)
CmpLoopNoTail(s_iter, o_iter) ==
    LET s == next(s_iter)
    IN  IF s.ret = None THEN "Equal"
        ELSE LET o == next(o_iter)
             IN  IF o.ret = None THEN "Greater"
                 ELSE LET c == u32_cmp(s.ret[1], o.ret[1])
                      IN  IF c = "Equal" THEN CmpLoopNoTail(s.iter, o.iter) ELSE c
cmp_no_tail(a, b) == CmpLoopNoTail(into_iter(a), iter(b))

cmp(a, b) == CmpLoop(into_iter(a), iter(b))
eq(a, b) == a.len = b.len /\ cmp(a, b) = "Equal"

\* ---- the packed_ints! macro ----
RECURSIVE PushAll(_, _)
PushAll(v, xs) ==
    IF xs = <<>> THEN v ELSE PushAll(push(v, Head(xs)).vec, Tail(xs))
packed_ints(xs) ==
    IF xs = <<>> THEN new ELSE PushAll(with_capacity(Len(xs)), xs)

\* ---- inputs ----
\* the smallest and the largest value of the type, and the first value above
ValidValues == {{}, MAX}
Values == ValidValues \cup {{NUM_BITS}}
Args == 0..MaxLen
SeqsUpTo(S, n) == UNION {[1..k -> S] : k \in 0..n}

\* the model stops pushing once the buffer holds one cell more than `bound`
\* elements need (push may add a cell on every call, see push)
CellsBounded(v, bound) == Len(v.buf) <= to_buf_capacity(bound)

Call(op, index, value, r) ==
    [op |-> op, index |-> index, value |-> value, ret |-> r.ret,
     err |-> r.err, ord |-> "none"]

\* the element sequence of an array, as get reports it
Contents(v) == [j \in 1..v.len |-> get(v, j - 1)[1]]
\* element index of an array of this width spans two cells
Spans(index) == available_bits(start_bit(index)) < NUM_BITS

\* no iterator is alive; otherwise the iterator and whether it borrows or owns
NoIter == [kind |-> "none", iter |-> into_iter(new)]

\* ---- Spec: one array under calls that keep to the documented ranges ----
\* (values within 0..MAX, indices within the array; SpecReject is the same
\* array under calls that are rejected as well)
Init ==
    /\ T \in Widths
    /\ self = new
    /\ other = new
    /\ third = new
    /\ last = Call("new", 0, {}, Ok(new, None))
    /\ iterator = NoIter
    /\ most = 0

PushTo(bound, value) ==
    /\ self.len < bound
    /\ CellsBounded(self, bound)
    /\ LET r == push(self, value)
       IN  /\ self' = r.vec
           /\ last' = Call("push", 0, value, r)
    /\ UNCHANGED <<T, other, third, iterator, most>>

Push(value) == PushTo(MaxLen, value)

Pop ==
    /\ LET r == pop(self)
       IN  /\ self' = r.vec
           /\ last' = Call("pop", 0, {}, r)
    /\ UNCHANGED <<T, other, third, iterator, most>>

Get(index) ==
    /\ last' = Call("get", index, {}, Ok(self, get(self, index)))
    /\ UNCHANGED <<T, self, other, third, iterator, most>>

Set(index, value) ==
    /\ LET r == set(self, index, value)
       IN  /\ self' = r.vec
           /\ last' = Call("set", index, value, r)
    /\ UNCHANGED <<T, other, third, iterator, most>>

Insert(index, value) ==
    /\ self.len < MaxLen
    /\ CellsBounded(self, MaxLen)
    /\ LET r == insert(self, index, value)
       IN  /\ self' = r.vec
           /\ last' = Call("insert", index, value, r)
    /\ UNCHANGED <<T, other, third, iterator, most>>

Remove(index) ==
    /\ LET r == remove(self, index)
       IN  /\ self' = r.vec
           /\ last' = Call("remove", index, {}, r)
    /\ UNCHANGED <<T, other, third, iterator, most>>

Truncate(len) ==
    /\ self' = truncate(self, len)
    /\ last' = Call("truncate", len, {}, Ok(self, None))
    /\ UNCHANGED <<T, other, third, iterator, most>>

Clear ==
    /\ self' = clear(self)
    /\ last' = Call("clear", 0, {}, Ok(self, None))
    /\ UNCHANGED <<T, other, third, iterator, most>>

Next ==
    \/ \E value \in ValidValues : Push(value)
    \/ Pop
    \/ \E index \in 0..(self.len - 1), value \in ValidValues : Set(index, value)
    \/ \E index \in 0..self.len, value \in ValidValues : Insert(index, value)
    \/ \E index \in 0..(self.len - 1) : Remove(index)
    \/ \E len \in Args : Truncate(len)
    \/ Clear

Spec == Init /\ [][Next]_vars

\* ---- SpecReject: the same array under every call, rejected ones included ----
\* set and insert are called with the largest value and the first above it
RejectValues == {MAX, {NUM_BITS}}

NextReject ==
    \/ \E value \in Values : Push(value)
    \/ Pop
    \/ \E index \in Args : Get(index)
    \/ \E index \in Args, value \in RejectValues : Set(index, value)
    \/ \E index \in Args, value \in RejectValues : Insert(index, value)
    \/ \E index \in Args : Remove(index)

SpecReject == Init /\ [][NextReject]_vars

\* ---- SpecShift: an array grown to MaxShift elements, then remove ----
GrowPush(value) == PushTo(MaxShift, value)

NextShift ==
    \/ \E value \in ValidValues : GrowPush(value)
    \/ \E index \in 0..MaxShift : Remove(index)

SpecShift == Init /\ [][NextShift]_vars

\* ---- SpecAppend: two arrays, one appended to the other ----
OtherPush(value) ==
    /\ other.len < MaxOther
    /\ CellsBounded(other, MaxOther)
    /\ LET r == push(other, value)
       IN  /\ other' = r.vec
           /\ last' = Call("other.push", 0, value, r)
    /\ UNCHANGED <<T, self, third, iterator, most>>

OtherPop ==
    /\ LET r == pop(other)
       IN  /\ other' = r.vec
           /\ last' = Call("other.pop", 0, {}, r)
    /\ UNCHANGED <<T, self, third, iterator, most>>

AppendOther ==
    /\ self.len + other.len <= MaxLen
    /\ CellsBounded(self, MaxLen)
    /\ LET r == append(self, other)
       IN  /\ self' = r.vec
           /\ other' = r.ret
           /\ last' = Call("append", 0, {}, [r EXCEPT !.ret = None])
    /\ UNCHANGED <<T, third, iterator, most>>

NextAppend ==
    \/ \E value \in ValidValues : Push(value)
    \/ Pop
    \/ \E value \in ValidValues : OtherPush(value)
    \/ OtherPop
    \/ AppendOther

SpecAppend == Init /\ [][NextAppend]_vars

\* ---- SpecCap: capacity under every operation ----
\* Capacity does not depend on the values stored, so one valid and one
\* invalid value are pushed; the array starts from new or with_capacity(n).
CapValues == {MAX, {NUM_BITS}}
\* the first index and the index one past the last element
CapArgs == {0, self.len}

InitCap ==
    /\ T \in Widths
    /\ \/ self = new /\ last = Call("new", 0, {}, Ok(new, None))
       \/ \E n \in 0..MaxLen :
            /\ self = with_capacity(n)
            /\ last = Call("with_capacity", n, {}, Ok(self, None))
    /\ other = new
    /\ third = new
    /\ iterator = NoIter
    /\ most = 0

Reserve(additional) ==
    /\ self' = reserve(self, additional)
    /\ last' = Call("reserve", additional, {}, Ok(self, None))
    /\ UNCHANGED <<T, other, third, iterator, most>>

NextCap ==
    \/ \E value \in CapValues : Push(value)
    \/ Pop
    \/ \E index \in CapArgs : Set(index, MAX)
    \/ \E index \in CapArgs : Insert(index, MAX)
    \/ \E index \in CapArgs : Remove(index)
    \/ \E len \in CapArgs : Truncate(len)
    \/ Clear
    \/ \E additional \in Args : Reserve(additional)
    \/ OtherPush(MAX)
    \/ AppendOther

SpecCap == InitCap /\ [][NextCap]_vars

\* ---- SpecIter: an array, then an iterator over it ----
\* While an iterator is alive the array cannot be called: the borrowing one
\* holds a shared borrow until it is dropped, the consuming one has taken
\* the array for good.  `self` stays as it was when the iterator was made.
\* last.index counts the next() calls made on the iterator.
MaxAfterEnd == 2     \* next() calls made after the iterator has ended

Iter ==
    /\ iterator.kind = "none"
    /\ iterator' = [kind |-> "borrowed", iter |-> iter(self)]
    /\ last' = Call("iter", 0, {}, Ok(self, None))
    /\ UNCHANGED <<T, self, other, third, most>>

IntoIter ==
    /\ iterator.kind = "none"
    /\ iterator' = [kind |-> "owned", iter |-> into_iter_move(self)]
    /\ last' = Call("into_iter", 0, {}, Ok(self, None))
    /\ UNCHANGED <<T, self, other, third, most>>

IterNext ==
    /\ iterator.kind # "none"
    /\ iterator.iter.index < iterator.iter.vec.len + MaxAfterEnd
    /\ LET n == IF iterator.kind = "owned" THEN next_move(iterator.iter)
                ELSE next(iterator.iter)
       IN  /\ iterator' = [iterator EXCEPT !.iter = n.iter]
           /\ last' = Call("next", IF last.op = "next" THEN last.index + 1 ELSE 1,
                           {}, Ok(self, n.ret))
    /\ UNCHANGED <<T, self, other, third, most>>

DropIter ==
    /\ iterator.kind = "borrowed"
    /\ iterator' = NoIter
    /\ last' = Call("drop", 0, {}, Ok(self, None))
    /\ UNCHANGED <<T, self, other, third, most>>

NextIter ==
    \/ iterator.kind = "none" /\ \E value \in ValidValues : Push(value)
    \/ iterator.kind = "none" /\ Pop
    \/ Iter
    \/ IntoIter
    \/ IterNext
    \/ DropIter

SpecIter == Init /\ [][NextIter]_vars

\* ---- SpecGrow: one array, with the largest length it has had ----
TrackedPush(value) ==
    /\ self.len < MaxLen
    /\ CellsBounded(self, MaxLen)
    /\ LET r == push(self, value)
       IN  /\ self' = r.vec
           /\ last' = Call("push", 0, value, r)
           /\ most' = Max2(most, r.vec.len)
    /\ UNCHANGED <<T, other, third, iterator>>

TrackedPop ==
    /\ LET r == pop(self)
       IN  /\ self' = r.vec
           /\ last' = Call("pop", 0, {}, r)
    /\ UNCHANGED <<T, other, third, iterator, most>>

TrackedTruncate(len) ==
    /\ self' = truncate(self, len)
    /\ last' = Call("truncate", len, {}, Ok(self, None))
    /\ UNCHANGED <<T, other, third, iterator, most>>

TrackedInsert(index, value) ==
    /\ self.len < MaxLen
    /\ CellsBounded(self, MaxLen)
    /\ LET r == insert(self, index, value)
       IN  /\ self' = r.vec
           /\ last' = Call("insert", index, value, r)
           /\ most' = Max2(most, r.vec.len)
    /\ UNCHANGED <<T, other, third, iterator>>

NextGrow ==
    \/ \E value \in ValidValues : TrackedPush(value)
    \/ TrackedPop
    \/ \E len \in Args : TrackedTruncate(len)
    \/ \E index \in 0..self.len : TrackedInsert(index, MAX)

SpecGrow == Init /\ [][NextGrow]_vars

\* ---- SpecOrd: three arrays of one type, compared ----
\* Each array is built by packed_ints! and then truncated, so that it may
\* hold stale bits beyond its length and more cells than its length needs.
OrdLists == SeqsUpTo(ValidValues, MaxOrd)
OrdArrays ==
    {packed_ints(xs) : xs \in OrdLists}
    \cup {truncate(packed_ints(xs), Len(xs) - 1) : xs \in OrdLists \ {<<>>}}

InitOrd ==
    /\ T \in Widths
    /\ self \in OrdArrays
    /\ other \in OrdArrays
    /\ third \in {packed_ints(xs) : xs \in OrdLists}
    /\ last = Call("new", 0, {}, Ok(new, None))
    /\ iterator = NoIter
    /\ most = 0

Compare ==
    /\ last.op = "new"
    /\ last' = [Call("cmp", 0, {}, Ok(self, None)) EXCEPT !.ord = cmp(self, other)]
    /\ UNCHANGED <<T, self, other, third, iterator, most>>

NextOrd == Compare

SpecOrd == InitOrd /\ [][NextOrd]_vars

\* ---- sequences the claims are stated with ----
InsertAt(seq, i, x) == SubSeq(seq, 1, i) \o <<x>> \o SubSeq(seq, i + 1, Len(seq))
RemoveAt(seq, i) == SubSeq(seq, 1, i) \o SubSeq(seq, i + 2, Len(seq))
LexLess(a, b) ==
    \E k \in 0..Len(a) :
        /\ k <= Len(b)
        /\ \A j \in 1..k : a[j] = b[j]
        /\ k < Len(b)
        /\ (k < Len(a) => Gt(b[k + 1], a[k + 1]))
SameElements(x, y) ==
    x.len = y.len /\ \A i \in 0..(x.len - 1) : get(x, i) = get(y, i)
StrictPrefix(x, y) ==
    x.len < y.len /\ \A i \in 0..(x.len - 1) : get(x, i) = get(y, i)

\* C1: a push of a value within 0..MAX succeeds in every reachable state,
\* increases the length by exactly one, makes get(length - 1) return the
\* pushed value, and leaves every element below the old length as it was.
C1_PushRoundTrip ==
    [][last'.op = "push" =>
        /\ ~Gt(last'.value, MAX) => last'.err = "none"
        /\ last'.err = "none" =>
            /\ self'.len = self.len + 1
            /\ get(self', self'.len - 1) = Some(last'.value)
            /\ \A j \in 0..(self.len - 1) : get(self', j) = get(self, j)]_vars

\* a push of an element spanning two cells, after a pop or truncate (the
\* buffer already held the high cell), read back by get
C1_Witness ==
    /\ last.op = "push" /\ last.err = "none"
    /\ self.len >= 2
    /\ Spans(self.len - 1)
    /\ Len(self.buf) > buf_index(self.len - 1) + 2
    /\ get(self, self.len - 1) = Some(last.value)

\* C2: set(i, v) with i < length and v <= MAX succeeds, leaves the length
\* unchanged, makes get(i) return v and leaves get(j) unchanged for j # i.
C2_SetFrame ==
    [][(last'.op = "set" /\ last'.index < self.len /\ ~Gt(last'.value, MAX)) =>
        /\ last'.err = "none"
        /\ self'.len = self.len
        /\ get(self', last'.index) = Some(last'.value)
        /\ \A j \in 0..(self.len - 1) :
              j # last'.index => get(self', j) = get(self, j)]_vars

\* C3: insert(i, v) with i <= length and v <= MAX succeeds and turns the
\* contents a into a[0..i) ++ [v] ++ a[i..n).
C3_InsertContents ==
    [][(last'.op = "insert" /\ last'.index <= self.len /\ ~Gt(last'.value, MAX)) =>
        /\ last'.err = "none"
        /\ self'.len = self.len + 1
        /\ Contents(self') = InsertAt(Contents(self), last'.index, last'.value)]_vars

\* C4: remove(i) with i < length returns a[i] and turns the contents a into
\* a[0..i) ++ a[i+1..n).
C4_RemoveContents ==
    [][(last'.op = "remove" /\ last'.index < self.len) =>
        /\ last'.err = "none"
        /\ last'.ret = get(self, last'.index)
        /\ self'.len = self.len - 1
        /\ Contents(self') = RemoveAt(Contents(self), last'.index)]_vars

\* C5: pop on a non-empty array returns the last element, decreases the
\* length by one and leaves the other elements unchanged; pop on an empty
\* array returns None and changes nothing; a push right after a pop stores
\* its value at the freed index.
C5_Pop ==
    [][/\ (last'.op = "pop" /\ self.len > 0) =>
            /\ last'.ret = get(self, self.len - 1)
            /\ self'.len = self.len - 1
            /\ \A j \in 0..(self.len - 2) : get(self', j) = get(self, j)
       /\ (last'.op = "pop" /\ self.len = 0) =>
            /\ last'.ret = None
            /\ self' = self
       /\ (last.op = "pop" /\ last'.op = "push" /\ last'.err = "none") =>
            Contents(self') = Append(Contents(self), last'.value)]_vars

\* a pop that returned an element spanning two cells and left others behind
C5_Witness ==
    /\ last.op = "pop" /\ last.ret # None
    /\ self.len >= 1
    /\ Spans(self.len)

\* C6: self.append(other) never fails, leaves self holding its elements
\* followed by those of other in order, and leaves other with length 0.
C6_Append ==
    [][last'.op = "append" =>
        /\ last'.err = "none"
        /\ self'.len = self.len + other.len
        /\ Contents(self') = Contents(self) \o Contents(other)
        /\ other'.len = 0]_vars

\* an append that moved a spanning element onto a non-empty array
C6_Witness ==
    /\ last.op = "append"
    /\ other.len = 0 /\ Len(other.buf) >= 2
    /\ self.len >= 3
    /\ Spans(self.len - 1)

\* C7 as stated: push(v) and set(i, v) with v > MAX fail with
\* ValueOutOfRange, for set at every index i.
C7_RangeRejection ==
    [][(last'.op \in {"push", "set"} /\ Gt(last'.value, MAX)) =>
        last'.err = "ValueOutOfRange"]_vars

\* C7 amended: push(v) with v > MAX fails with ValueOutOfRange; set(i, v)
\* with v > MAX always fails, with ValueOutOfRange when i < length and with
\* OutOfBounds when i >= length (the index is checked first).
C7_RangeRejectionAmended ==
    [][/\ (last'.op = "push" /\ Gt(last'.value, MAX)) =>
            last'.err = "ValueOutOfRange"
       /\ (last'.op = "set" /\ Gt(last'.value, MAX)) =>
            last'.err = (IF last'.index < self.len THEN "ValueOutOfRange"
                         ELSE "OutOfBounds")]_vars

\* a set of a value above MAX at a valid index of a spanning element
C7_Witness ==
    /\ last.op = "set" /\ Gt(last.value, MAX)
    /\ last.index < self.len
    /\ Spans(last.index)
    /\ last.err = "ValueOutOfRange"

\* C8: every rejected call leaves the array exactly as it was; set and
\* remove with i >= length, insert with i > length and push, set, insert with
\* a value above MAX are rejected; get(i) with i >= length returns None.
C8_RejectedAtomic ==
    [][/\ last'.err # "none" => self' = self
       /\ (last'.op \in {"set", "remove"} /\ last'.index >= self.len) =>
            last'.err # "none"
       /\ (last'.op = "insert" /\ last'.index > self.len) => last'.err # "none"
       /\ (last'.op \in {"push", "set", "insert"} /\ Gt(last'.value, MAX)) =>
            last'.err # "none"
       /\ (last'.op = "get" /\ last'.index >= self.len) =>
            (last'.ret = None /\ last'.err = "none" /\ self' = self)]_vars

\* an insert at a valid index of a value above MAX, rejected, on an array
\* that holds elements
C8_Witness ==
    /\ last.op = "insert" /\ last.err = "ValueOutOfRange"
    /\ last.index <= self.len
    /\ self.len >= 1

\* C9: length <= capacity() holds before and after every operation, on both
\* arrays, and no operation makes capacity() smaller.
C9_LenWithinCapacity ==
    [][/\ self.len <= capacity(self) /\ self'.len <= capacity(self')
       /\ other.len <= capacity(other) /\ other'.len <= capacity(other')
       /\ capacity(self') >= capacity(self)
       /\ capacity(other') >= capacity(other)]_vars

\* a push that filled the array to its capacity with a spanning element
C9_Witness ==
    /\ last.op = "push" /\ last.err = "none"
    /\ self.len = capacity(self)
    /\ self.len >= 2
    /\ Spans(self.len - 1)

\* C10: cmp is the lexicographic order of the element sequences: it is
\* antisymmetric and transitive, a strict prefix is Less than its extension,
\* and == holds iff cmp is Equal iff lengths and elements agree.  Stated of
\* the arrays in the order (self, other, third); the states of SpecOrd hold
\* every pair of arrays in both orders.
Lex(x, y) ==
    IF Contents(x) = Contents(y) THEN "Equal"
    ELSE IF LexLess(Contents(x), Contents(y)) THEN "Less" ELSE "Greater"
C10_LexicographicOrder ==
    LET so == cmp(self, other)
        os == cmp(other, self)
        ot == cmp(other, third)
        st == cmp(self, third)
    IN  /\ so = Lex(self, other)
        /\ cmp(self, self) = "Equal"
        /\ (so = "Less") = (os = "Greater")
        /\ (so = "Equal") = (os = "Equal")
        /\ eq(self, other) = (so = "Equal")
        /\ eq(self, other) = SameElements(self, other)
        /\ StrictPrefix(self, other) => (so = "Less" /\ os = "Greater")
        /\ (so # "Greater" /\ ot # "Greater") => st # "Greater"
        /\ (so = "Less" /\ ot # "Greater") => st = "Less"
        /\ (so # "Greater" /\ ot = "Less") => st = "Less"

\* a truncated array (stale bits and a spare cell beyond its length) compared
\* Less than the extension it is a strict prefix of
C10_Witness ==
    /\ last.op = "cmp" /\ last.ord = "Less"
    /\ StrictPrefix(self, other)
    /\ self.len >= 1
    /\ Len(self.buf) > to_buf_capacity(self.len)

\* C11: the k-th next() call on an iterator made over an array of length n
\* returns Some(get(k - 1)) for k <= n and None for every k > n, for the
\* borrowing and for the consuming iterator.
C11_IteratorOrder ==
    [][last'.op = "next" =>
        last'.ret = (IF last'.index <= self.len
                     THEN Some(Contents(self)[last'.index]) ELSE None)]_vars

\* the second next() call after the end of a consuming iterator over an
\* array with a spanning element and stale bits beyond its length
C11_Witness ==
    /\ last.op = "next" /\ last.ret = None
    /\ iterator.kind = "owned"
    /\ self.len >= 2
    /\ last.index = self.len + 2
    /\ Spans(self.len - 1)
    /\ Len(self.buf) > to_buf_capacity(self.len)

\* C12: truncate(n) with n < length sets the length to n, keeps the elements
\* 0..n-1 and changes neither the cells nor the allocation; with n >= length it
\* changes nothing; clear() does what truncate(0) does and leaves the array
\* empty; a push that follows truncate(n) stores its value at index n.
C12_Truncate ==
    [][/\ last'.op = "truncate" =>
            IF last'.index < self.len
            THEN /\ self'.len = last'.index
                 /\ \A j \in 0..(last'.index - 1) : get(self', j) = get(self, j)
                 /\ self'.buf = self.buf
                 /\ self'.bufcap = self.bufcap
            ELSE self' = self
       /\ last'.op = "clear" =>
            /\ self'.len = 0
            /\ is_empty(self')
            /\ self'.buf = self.buf
            /\ self'.bufcap = self.bufcap
       /\ (last.op = "truncate" /\ last.index = self.len /\ last'.op = "push") =>
            /\ self'.len = last.index + 1
            /\ get(self', last.index) = Some(last'.value)
            /\ \A j \in 0..(last.index - 1) : get(self', j) = get(self, j)
      ]_vars

\* truncate(n) has just left n >= 1 elements, the first dropped element was
\* non-zero and spans two cells, and its cells are still in the buffer
C12_Witness ==
    /\ last.op = "truncate"
    /\ last.index = self.len
    /\ self.len >= 1
    /\ Spans(self.len)
    /\ Len(self.buf) >= buf_index(self.len) + 2
    /\ get_unchecked(self, self.len) # {}

\* the least c with c * b >= a
CeilDiv(a, b) == CHOOSE c \in 0..a : c * b >= a /\ (c = 0 \/ (c - 1) * b < a)

\* with_capacity(n) returns an empty array with exactly ceil(width*n/32)
\* cells allocated, which hold at least n elements
WithCapacityExact ==
    last.op = "with_capacity" =>
        /\ self.len = 0
        /\ self.buf = <<>>
        /\ self.bufcap = CeilDiv(NUM_BITS * last.index, U32_NUM_BITS)
        /\ capacity(self) = (self.bufcap * U32_NUM_BITS) \div NUM_BITS
        /\ capacity(self) >= last.index

\* reserve(k) leaves the length, the cells and so the elements as they were,
\* does nothing when there is room, and leaves room for length + k elements
ReserveKeeps ==
    last'.op = "reserve" =>
        /\ self'.len = self.len
        /\ self'.buf = self.buf
        /\ Contents(self') = Contents(self)
        /\ capacity(self) >= self.len + last'.index => self' = self
        /\ capacity(self') >= self'.len + last'.index

\* C13: with_capacity(n) gives length 0 and exactly ceil(width*n/32) cells,
\* so capacity() >= n; reserve(k) does nothing when capacity() >= length + k
\* and otherwise makes the allocation at least ceil(width*k/32) cells larger
\* than it was; afterwards capacity() >= length + k, length and elements kept.
C13_Capacity ==
    /\ []WithCapacityExact
    /\ [][/\ ReserveKeeps
          /\ (last'.op = "reserve" /\ capacity(self) < self.len + last'.index) =>
                self'.bufcap >= self.bufcap
                                + CeilDiv(NUM_BITS * last'.index, U32_NUM_BITS)
         ]_vars

\* C13 as the code has it: a reserve(k) that is not a no-op makes the
\* allocation larger than it was and at least ceil(width*k/32) cells larger
\* than the number of cells the buffer holds.
C13_CapacityAmended ==
    /\ []WithCapacityExact
    /\ [][/\ ReserveKeeps
          /\ (last'.op = "reserve" /\ capacity(self) < self.len + last'.index) =>
                /\ self'.bufcap > self.bufcap
                /\ self'.bufcap >= Len(self.buf)
                                   + CeilDiv(NUM_BITS * last'.index, U32_NUM_BITS)
         ]_vars

\* reserve(k) has been called on an array with elements, the last of them
\* spanning two cells, and the allocation is past the room it asked for
C13_Witness ==
    /\ last.op = "reserve"
    /\ last.index >= 2
    /\ self.len >= 2
    /\ Spans(self.len - 1)
    /\ self.bufcap > Len(self.buf) + CeilDiv(NUM_BITS * last.index, U32_NUM_BITS)
    /\ capacity(self) >= self.len + last.index

\* the bits of the element at `index` end past the cells the buffer holds
PastLastCell(v, index) == (index + 1) * NUM_BITS > U32_NUM_BITS * Len(v.buf)

\* C14: push adds a cell only when the bits of the pushed element end past
\* the last cell of the buffer, and then one cell; otherwise the number of
\* cells stays; so the buffer always holds ceil(M*width/32) cells, M being the
\* largest length the array has had.
C14_CellCount ==
    /\ [][(last'.op = "push" /\ last'.err = "none") =>
            Len(self'.buf) = Len(self.buf)
                             + (IF PastLastCell(self, self.len) THEN 1 ELSE 0)]_vars
    /\ [](Len(self.buf) = CeilDiv(most * NUM_BITS, U32_NUM_BITS))
====
